---- MODULE Spec2Model ----
(***************************************************************************)
(* Model of crypto_bot/smart_binance_downloader.py (main and its helpers)  *)
(* and of the part of crypto_bot/download_kline.py that main drives.       *)
(*                                                                         *)
(* Dates are day numbers 0 .. NumMonths*DaysPerMonth-1 of a small calendar *)
(* whose months all have DaysPerMonth days; a timestamp is a number of     *)
(* "milliseconds", MsPerDay of them to a day.  A record (a CSV row) is     *)
(* [ts, f]: column 0 and the remaining, opaque columns.  A file is         *)
(* [exists, rows].  main runs for one upper-case symbol and one interval   *)
(* that has daily files, with cksum = 0, as its command line calls it.     *)
(***************************************************************************)
EXTENDS Integers, Sequences, FiniteSets, TLC

\* ---------------------------------------------------------------- bounds
NumMonths == 2
DaysPerMonth == 3
MsPerDay == 2
MaxTasks == 2
MaxRetries == 3
MaxSleepArg == 3

\* ------------------------------------------------- program constants
\* argparse defaults of --rate-limit-sleep and --max-backoff
DefaultRateLimitSleep == 1
DefaultMaxBackoff == 64

VARIABLES
  start_date,        \* main's argument
  end_date,          \* main's argument
  rate_limit_sleep,  \* main's argument
  max_backoff,       \* main's argument
  merged_csv,        \* the dataset file data_dir/SYMBOL_INTERVAL.csv
  out_dir,           \* the files of data_dir/SYMBOL_INTERVAL_data, by name
  existing_dates,    \* main's local
  files_to_download, \* main's local
  ti,                \* position of main's loop over files_to_download
  all_new_rows,      \* main's local: a list of data frames
  merged,            \* main's local: the frame handed to to_csv
  sleep_time,        \* download_with_backoff's local
  calls,             \* calls of download_func made by the running download_with_backoff
  sleeps,            \* sleeps made by the running download_with_backoff, in order
  exc,               \* the exception being handled: <<>> or <<e>>
  pc,                \* where the process is
  initial_csv,       \* history: the dataset file when main began
  status,            \* history: how each finished task ended, and whether the pacing sleep ran
  fetched,           \* history: every row main read from a task's output file
  retried,           \* history: a task that has ended had slept on a rate-limit error
  report             \* what main printed last: "none", "updated", "no_new_data"

vars == <<start_date, end_date, rate_limit_sleep, max_backoff, merged_csv, out_dir,
          existing_dates, files_to_download, ti, all_new_rows, merged, sleep_time,
          calls, sleeps, exc, pc, initial_csv, status, fetched, retried, report>>

\* ------------------------------------------------------------- calendar
NumDays == NumMonths * DaysPerMonth
Days == 0 .. (NumDays - 1)
Timestamps == 0 .. (NumDays * MsPerDay - 1)

Min(a, b) == IF a <= b THEN a ELSE b
Max(a, b) == IF a >= b THEN a ELSE b

\* pd.to_datetime(ts, unit='ms').dt.date
DateOf(ts) == ts \div MsPerDay

\* date.replace(day=1)
FirstOfMonth(d) == (d \div DaysPerMonth) * DaysPerMonth

\* first-of-month + relativedelta(months=1)
AddMonth(m) == m + DaysPerMonth

\* daterange without the "+ 1" of its range: the last date is not yielded
daterange_short(a, b) == [n \in 1 .. Max(b - a, 0) |-> a + (n - 1)]

\* daterange(start_date, end_date): the dates yielded, in order
daterange(a, b) == [n \in 1 .. Max((b - a) + 1, 0) |-> a + (n - 1)]

Range(s) == {s[i] : i \in DOMAIN s}

\* get_months_between(start_date, end_date)
RECURSIVE MonthsFrom(_, _)
MonthsFrom(current, e) ==
  IF current <= e THEN <<current>> \o MonthsFrom(AddMonth(current), e) ELSE <<>>

get_months_between(s, e) == MonthsFrom(FirstOfMonth(s), e)

\* ---------------------------------------------------------------- files
NoFile == [exists |-> FALSE, rows |-> <<>>]
File(rows) == [exists |-> TRUE, rows |-> rows]

\* get_existing_dates(csv_path)
get_existing_dates(f) ==
  IF ~f.exists THEN {} ELSE {DateOf(f.rows[i].ts) : i \in DOMAIN f.rows}

\* -------------------------------------------------------------- planner
Task(freq, from, to) == [freq |-> freq, from |-> from, to |-> to]

\* the daily branch of the loop body: one task per date not in existing_dates
DailyTasks(dates, existing) ==
  LET keep(d) == d \notin existing
      t(d) == Task("daily", d, d + 1)
      RECURSIVE go(_)
      go(i) == IF i > Len(dates) THEN <<>>
               ELSE (IF keep(dates[i]) THEN <<t(dates[i])>> ELSE <<>>) \o go(i + 1)
  IN go(1)

\* the condition without its test that the month lies within [start_date, end_date]
WholeMonthCond_anyOverlap(month_start, month_end, s, e, month_dates, existing) ==
  ~(month_dates \subseteq existing)

\* the condition under which the loop body plans the month as one monthly file
WholeMonthCond(month_start, month_end, s, e, month_dates, existing) ==
  /\ month_start >= s
  /\ month_end <= e
  /\ ~(month_dates \subseteq existing)

\* one iteration of "for month in months"
PlanMonth(month, s, e, existing) ==
  LET month_start == month
      month_end == AddMonth(month) - 1
      in_range == daterange(Max(month_start, s), Min(month_end, e))
      month_dates == Range(in_range)
  IN IF WholeMonthCond(month_start, month_end, s, e, month_dates, existing)
     THEN <<Task("monthly", month, AddMonth(month))>>
     ELSE DailyTasks(in_range, existing)

\* files_to_download after the loop over months
PlanTasks(s, e, existing) ==
  LET months == get_months_between(s, e)
      RECURSIVE go(_)
      go(i) == IF i > Len(months) THEN <<>>
               ELSE PlanMonth(months[i], s, e, existing) \o go(i + 1)
  IN go(1)

\* ------------------------------------------------------------- records
Rec(ts, f) == [ts |-> ts, f |-> f]

\* pd.concat of a list of frames
RECURSIVE Concat(_)
Concat(frames) == IF frames = <<>> THEN <<>> ELSE Head(frames) \o Concat(Tail(frames))

\* frame.drop_duplicates(subset=[0]): of the rows sharing column 0, the first stays
DropDuplicates(rows) ==
  LET first(i) == \A j \in 1 .. (i - 1) : rows[j].ts # rows[i].ts
      RECURSIVE go(_)
      go(i) == IF i > Len(rows) THEN <<>>
               ELSE (IF first(i) THEN <<rows[i]>> ELSE <<>>) \o go(i + 1)
  IN go(1)

\* the places where row r may go into the ascending sequence s
Inserts(r, s) ==
  LET lo == Cardinality({i \in DOMAIN s : s[i].ts < r.ts})
      hi == Cardinality({i \in DOMAIN s : s[i].ts <= r.ts})
  IN {SubSeq(s, 1, k) \o <<r>> \o SubSeq(s, k + 1, Len(s)) : k \in lo .. hi}

\* frame.sort_values(by=0): ascending in column 0; the default sort is not stable,
\* so rows sharing column 0 may come out in any order
RECURSIVE SortValues(_)
SortValues(rows) ==
  IF rows = <<>> THEN {<<>>}
  ELSE UNION {Inserts(Head(rows), s) : s \in SortValues(Tail(rows))}

\* the filter letting every row through
FilterNew_keepsAll(rows, existing) == rows

\* df[~df['date'].isin(existing_dates)]
FilterNew(rows, existing) ==
  LET RECURSIVE go(_)
      go(i) == IF i > Len(rows) THEN <<>>
               ELSE (IF DateOf(rows[i].ts) \notin existing THEN <<rows[i]>> ELSE <<>>)
                    \o go(i + 1)
  IN go(1)

\* the merge keeping only the new rows, whether or not a dataset file exists
MergeFrames_newOnly(csv, frames) == Concat(frames)

\* lines 127-132: the frame that is then sorted
MergeFrames(csv, frames) ==
  LET new_data == Concat(frames)
  IN IF csv.exists THEN DropDuplicates(csv.rows \o new_data) ELSE new_data

\* ---------------------------------------------------- names and archive
\* strftime('%Y-%m') and strftime('%Y-%m-%d'), as the period label of a file name
Ym(d) == <<"ym", d \div DaysPerMonth>>
Ymd(d) == <<"ymd", d>>

\* convert_to_date_object('{}-01'.format(month))
FirstDayOfLabel(label) == label[2] * DaysPerMonth

FileNames == {Ym(d) : d \in Days} \cup {Ymd(d) : d \in Days}

EmptyDir == [n \in FileNames |-> NoFile]

\* the rows the remote archive holds for one day
DayRows(d) == [i \in 1 .. MsPerDay |-> Rec(d * MsPerDay + (i - 1), "new")]

RECURSIVE RowsOfDays(_, _)
RowsOfDays(from, to) == IF from >= to THEN <<>> ELSE DayRows(from) \o RowsOfDays(from + 1, to)

\* the rows of the archive published under a period label
PeriodRows(name) ==
  IF name[1] = "ym"
  THEN RowsOfDays(FirstDayOfLabel(name), AddMonth(FirstDayOfLabel(name)))
  ELSE DayRows(name[2])

\* what the extracted CSV of a period may hold: the period's rows, the same
\* followed by a second row of its first timestamp with other columns (out of
\* order and duplicated), or nothing at all
ArchiveFiles(name) ==
  {PeriodRows(name),
   PeriodRows(name) \o <<Rec(PeriodRows(name)[1].ts, "dup")>>,
   <<>>}

\* download_file + extractall for one period label: the file appears in the folder,
\* or (nothing published) the folder stays as it is
Extracted(dir, name) ==
  {dir} \cup {[dir EXCEPT ![name] = File(c)] : c \in ArchiveFiles(name)}

\* main lines 86-90: the month labels from month_start up to the day before month_end
RECURSIVE MonthLabels(_, _)
MonthLabels(current_month, month_end) ==
  IF current_month <= month_end - 1
  THEN <<Ym(current_month)>> \o MonthLabels(AddMonth(current_month), month_end)
  ELSE <<>>

\* the folders download_monthly_klines(.., months, start_date, end_date, folder, ..) may leave
RECURSIVE download_monthly_klines(_, _, _, _)
download_monthly_klines(months, sd, ed, dir) ==
  IF months = <<>> THEN {dir}
  ELSE LET current_date == FirstDayOfLabel(Head(months))
           after == IF current_date >= sd /\ current_date <= ed
                    THEN Extracted(dir, Head(months)) ELSE {dir}
       IN UNION {download_monthly_klines(Tail(months), sd, ed, d2) : d2 \in after}

\* the folders download_daily_klines(.., dates, start_date, end_date, folder, ..) may leave
RECURSIVE download_daily_klines(_, _, _, _)
download_daily_klines(dates, sd, ed, dir) ==
  IF dates = <<>> THEN {dir}
  ELSE LET current_date == Head(dates)
           after == IF current_date >= sd /\ current_date <= ed
                    THEN Extracted(dir, Ymd(current_date)) ELSE {dir}
       IN UNION {download_daily_klines(Tail(dates), sd, ed, d2) : d2 \in after}

\* the call main wraps in download_with_backoff for a task
DownloadFunc(task, dir) ==
  IF task.freq = "monthly"
  THEN download_monthly_klines(MonthLabels(task.from, task.to), task.from, task.to, dir)
  ELSE download_daily_klines(<<task.from>>, task.from, task.to, dir)

\* fname: the name main then looks for in out_dir
OutputName(task) == Ymd(task.from)

\* ------------------------------------------------------------- backoff
\* an exception, by what its message holds
Errors == [has429 : BOOLEAN, hasRateLimit : BOOLEAN]

\* the test taking every exception for a rate-limit error
IsRateLimit_always(e) == TRUE

\* "429" in str(e) or "rate limit" in str(e).lower()
IsRateLimit(e) == e.has429 \/ e.hasRateLimit

\* pandas' EmptyDataError ("No columns to parse from file")
EmptyDataError == [has429 |-> FALSE, hasRateLimit |-> FALSE]

\* sleep_time = min(sleep_time * 2, max_backoff)
NextSleep(t, cap) == Min(t * 2, cap)

\* ---------------------------------------------------------------- main
CurrentTask == files_to_download[ti]

\* lines 44-75: read the coverage, plan the tasks
Plan ==
  /\ pc = "start"
  /\ existing_dates' = get_existing_dates(merged_csv)
  /\ files_to_download' = PlanTasks(start_date, end_date, get_existing_dates(merged_csv))
  /\ all_new_rows' = <<>>
  /\ ti' = 1
  /\ pc' = "loop"
  /\ UNCHANGED <<start_date, end_date, rate_limit_sleep, max_backoff, merged_csv, out_dir,
                 merged, sleep_time, calls, sleeps, exc, initial_csv, retried, status, fetched, report>>

\* the next task going on with the sleep time it finds
TaskBegin_sharedSleep ==
  /\ pc = "loop"
  /\ ti <= Len(files_to_download)
  /\ sleep_time' = sleep_time
  /\ calls' = 0
  /\ sleeps' = <<>>
  /\ pc' = "call"
  /\ UNCHANGED <<start_date, end_date, rate_limit_sleep, max_backoff, merged_csv, out_dir,
                 existing_dates, files_to_download, ti, all_new_rows, merged,
                 exc, initial_csv, retried, status, fetched, report>>

\* lines 76-94 / 100-107 and line 30: the next task enters download_with_backoff
TaskBegin ==
  /\ pc = "loop"
  /\ ti <= Len(files_to_download)
  /\ sleep_time' = rate_limit_sleep
  /\ calls' = 0
  /\ sleeps' = <<>>
  /\ pc' = "call"
  /\ UNCHANGED <<start_date, end_date, rate_limit_sleep, max_backoff, merged_csv, out_dir,
                 existing_dates, files_to_download, ti, all_new_rows, merged,
                 exc, initial_csv, retried, status, fetched, report>>

\* lines 33-34: download_func returns, download_with_backoff returns
CallReturns ==
  /\ pc = "call"
  /\ calls' = calls + 1
  /\ out_dir' \in DownloadFunc(CurrentTask, out_dir)
  /\ pc' = "read"
  /\ UNCHANGED <<start_date, end_date, rate_limit_sleep, max_backoff, merged_csv,
                 existing_dates, files_to_download, ti, all_new_rows, merged, sleep_time,
                 sleeps, exc, initial_csv, retried, status, fetched, report>>

\* lines 33, 35-37, 41-42: download_func raises; a rate-limit error leads to the
\* sleep, any other error leaves download_with_backoff
CallRaises ==
  /\ pc = "call"
  /\ \E e \in Errors :
       /\ IsRateLimit(e) => Len(sleeps) < MaxRetries
       /\ pc' = IF IsRateLimit(e) THEN "backoff" ELSE "except"
       /\ exc' = <<e>>
  /\ calls' = calls + 1
  /\ UNCHANGED <<start_date, end_date, rate_limit_sleep, max_backoff, merged_csv, out_dir,
                 existing_dates, files_to_download, ti, all_new_rows, merged, sleep_time,
                 sleeps, initial_csv, retried, status, fetched, report>>

\* lines 38-40: sleep, then double the sleep up to max_backoff
BackoffSleep ==
  /\ pc = "backoff"
  /\ sleeps' = Append(sleeps, sleep_time)
  /\ sleep_time' = NextSleep(sleep_time, max_backoff)
  /\ pc' = "call"
  /\ exc' = <<>>
  /\ UNCHANGED <<start_date, end_date, rate_limit_sleep, max_backoff, merged_csv, out_dir,
                 existing_dates, files_to_download, ti, all_new_rows, merged, calls,
                 initial_csv, retried, status, fetched, report>>

\* lines 97 / 109 and 111-120: download_with_backoff has returned (its locals are
\* gone); read the task's output file if it is there, keep the rows of dates not
\* yet covered, then the pacing sleep; read_csv raises on a file with no rows
ReadOutput ==
  /\ pc = "read"
  /\ LET f == out_dir[OutputName(CurrentTask)]
     IN IF f.exists /\ f.rows = <<>>
        THEN /\ pc' = "except"
             /\ exc' = <<EmptyDataError>>
             /\ UNCHANGED <<all_new_rows, fetched, status, ti>>
        ELSE /\ pc' = "loop"
             /\ exc' = <<>>
             /\ ti' = ti + 1
             /\ all_new_rows' = IF f.exists
                                THEN Append(all_new_rows, FilterNew(f.rows, existing_dates))
                                ELSE all_new_rows
             /\ fetched' = fetched \cup Range(f.rows)
             /\ status' = Append(status, [result |-> IF f.exists THEN "ok" ELSE "nofile",
                                          slept |-> rate_limit_sleep])
  /\ sleep_time' = 0
  /\ calls' = 0
  /\ sleeps' = <<>>
  /\ retried' = (retried \/ sleeps # <<>>)
  /\ UNCHANGED <<start_date, end_date, rate_limit_sleep, max_backoff, merged_csv, out_dir,
                 existing_dates, files_to_download, merged, initial_csv, report>>

\* the except clause losing the rows gathered so far
Except_dropsRows ==
  /\ pc = "except"
  /\ status' = Append(status, [result |-> "error", slept |-> -1])
  /\ ti' = ti + 1
  /\ pc' = "loop"
  /\ exc' = <<>>
  /\ sleep_time' = 0
  /\ calls' = 0
  /\ sleeps' = <<>>
  /\ retried' = (retried \/ sleeps # <<>>)
  /\ all_new_rows' = <<>>
  /\ UNCHANGED <<start_date, end_date, rate_limit_sleep, max_backoff, merged_csv, out_dir,
                 existing_dates, files_to_download, merged, initial_csv, fetched, report>>

\* lines 121-124: the except clause of the loop body; the loop goes on
Except ==
  /\ pc = "except"
  /\ status' = Append(status, [result |-> "error", slept |-> -1])
  /\ ti' = ti + 1
  /\ pc' = "loop"
  /\ exc' = <<>>
  /\ sleep_time' = 0
  /\ calls' = 0
  /\ sleeps' = <<>>
  /\ retried' = (retried \/ sleeps # <<>>)
  /\ UNCHANGED <<start_date, end_date, rate_limit_sleep, max_backoff, merged_csv, out_dir,
                 existing_dates, files_to_download, all_new_rows, merged,
                 initial_csv, fetched, report>>

\* the merge step not waiting for the end of the task loop
Merge_beforeLoopEnds ==
  /\ pc = "loop"
  /\ IF all_new_rows # <<>>
     THEN /\ merged' \in SortValues(MergeFrames(merged_csv, all_new_rows))
          /\ pc' = "to_csv"
          /\ UNCHANGED report
     ELSE /\ report' = "no_new_data"
          /\ pc' = "done"
          /\ UNCHANGED merged
  /\ UNCHANGED <<start_date, end_date, rate_limit_sleep, max_backoff, merged_csv, out_dir,
                 existing_dates, files_to_download, ti, all_new_rows, sleep_time, calls,
                 sleeps, exc, initial_csv, retried, status, fetched>>

\* lines 126-133, 136-137: after the loop
Merge ==
  /\ pc = "loop"
  /\ ti > Len(files_to_download)
  /\ IF all_new_rows # <<>>
     THEN /\ merged' \in SortValues(MergeFrames(merged_csv, all_new_rows))
          /\ pc' = "to_csv"
          /\ UNCHANGED report
     ELSE /\ report' = "no_new_data"
          /\ pc' = "done"
          /\ UNCHANGED merged
  /\ UNCHANGED <<start_date, end_date, rate_limit_sleep, max_backoff, merged_csv, out_dir,
                 existing_dates, files_to_download, ti, all_new_rows, sleep_time, calls,
                 sleeps, exc, initial_csv, retried, status, fetched>>

\* line 134: to_csv opens merged_csv for writing, which empties it
ToCsvOpen ==
  /\ pc = "to_csv"
  /\ merged_csv' = File(<<>>)
  /\ pc' = "writing"
  /\ UNCHANGED <<start_date, end_date, rate_limit_sleep, max_backoff, out_dir,
                 existing_dates, files_to_download, ti, all_new_rows, merged, sleep_time,
                 calls, sleeps, exc, initial_csv, retried, status, fetched, report>>

\* line 134: to_csv writes the next row
ToCsvRow ==
  /\ pc = "writing"
  /\ Len(merged_csv.rows) < Len(merged)
  /\ merged_csv' = File(Append(merged_csv.rows, merged[Len(merged_csv.rows) + 1]))
  /\ UNCHANGED <<start_date, end_date, rate_limit_sleep, max_backoff, out_dir,
                 existing_dates, files_to_download, ti, all_new_rows, merged, sleep_time,
                 calls, sleeps, exc, pc, initial_csv, retried, status, fetched, retried, report>>

\* lines 134-135: to_csv closes the file, main prints "Updated ..."
ToCsvClose ==
  /\ pc = "writing"
  /\ Len(merged_csv.rows) = Len(merged)
  /\ report' = "updated"
  /\ pc' = "done"
  /\ UNCHANGED <<start_date, end_date, rate_limit_sleep, max_backoff, merged_csv, out_dir,
                 existing_dates, files_to_download, ti, all_new_rows, merged, sleep_time,
                 calls, sleeps, exc, initial_csv, retried, status, fetched>>

\* the process is terminated from outside while it persists the result
Kill ==
  /\ pc \in {"to_csv", "writing"}
  /\ pc' = "killed"
  /\ UNCHANGED <<start_date, end_date, rate_limit_sleep, max_backoff, merged_csv, out_dir,
                 existing_dates, files_to_download, ti, all_new_rows, merged, sleep_time,
                 calls, sleeps, exc, initial_csv, retried, status, fetched, report>>

\* ------------------------------------------------------- specifications
\* the locals before main has set them
LocalsUnset ==
  /\ existing_dates = {}
  /\ files_to_download = <<>>
  /\ ti = 1
  /\ all_new_rows = <<>>
  /\ merged = <<>>
  /\ sleep_time = 0
  /\ calls = 0
  /\ sleeps = <<>>
  /\ exc = <<>>
  /\ status = <<>>
  /\ fetched = {}
  /\ retried = FALSE
  /\ report = "none"

\* a dataset file holding one row for each date of a set, ascending
RECURSIVE DatasetOf(_)
DatasetOf(dates) ==
  IF dates = {} THEN <<>>
  ELSE LET d == CHOOSE x \in dates : \A y \in dates : x <= y
       IN <<Rec(d * MsPerDay, "old")>> \o DatasetOf(dates \ {d})

\* the planner on every range (start > end too) and every coverage
InitPlan ==
  /\ start_date \in Days
  /\ end_date \in Days
  /\ rate_limit_sleep = DefaultRateLimitSleep
  /\ max_backoff = DefaultMaxBackoff
  /\ merged_csv \in {NoFile} \cup {File(DatasetOf(c)) : c \in (SUBSET Days) \ {{}}}
  /\ out_dir = EmptyDir
  /\ initial_csv = merged_csv
  /\ pc = "start"
  /\ LocalsUnset

PlanSpec == InitPlan /\ [][Plan]_vars

\* download_with_backoff on every initial sleep and cap: main with the first month
\* or its first day asked for and no dataset yet, up to the return or raise of the
\* first task's download_with_backoff
InitBackoff ==
  /\ start_date = 0
  /\ end_date \in {0, DaysPerMonth - 1}
  /\ rate_limit_sleep \in 0 .. MaxSleepArg
  /\ max_backoff \in 0 .. MaxSleepArg
  /\ merged_csv = NoFile
  /\ out_dir = EmptyDir
  /\ initial_csv = merged_csv
  /\ pc = "start"
  /\ LocalsUnset

NextBackoff == Plan \/ TaskBegin \/ CallReturns \/ CallRaises \/ BackoffSleep

BackoffSpec == InitBackoff /\ [][NextBackoff]_vars

\* a sync: any range whose plan has at most MaxTasks tasks, the dataset absent or
\* holding the first row of one day, the download folder empty or holding the
\* file of a month's first day left by an earlier run, the default sleeps
Init ==
  /\ start_date \in Days
  /\ end_date \in Days
  /\ rate_limit_sleep = DefaultRateLimitSleep
  /\ max_backoff = DefaultMaxBackoff
  /\ merged_csv \in {NoFile} \cup {File(DatasetOf({d})) : d \in Days}
  /\ out_dir \in {EmptyDir} \cup
                 {[EmptyDir EXCEPT ![Ymd(FirstOfMonth(d))] = File(DayRows(FirstOfMonth(d)))] :
                    d \in Days}
  /\ Len(PlanTasks(start_date, end_date, get_existing_dates(merged_csv))) <= MaxTasks
  /\ initial_csv = merged_csv
  /\ pc = "start"
  /\ LocalsUnset

Next ==
  \/ Plan
  \/ TaskBegin
  \/ CallReturns
  \/ CallRaises
  \/ BackoffSleep
  \/ ReadOutput
  \/ Except
  \/ Merge
  \/ ToCsvOpen
  \/ ToCsvRow
  \/ ToCsvClose
  \/ Kill

Spec == Init /\ [][Next]_vars

\* ------------------------------------------------- planner properties
TaskDates(t) == t.from .. (t.to - 1)
Planned == pc # "start" /\ start_date <= end_date
InRange == start_date .. end_date
Missing == InRange \ existing_dates
TaskIdx == DOMAIN files_to_download
MonthStarts == {FirstOfMonth(d) : d \in Days}
MonthDays(m) == m .. (AddMonth(m) - 1)
InRangeOf(m) == MonthDays(m) \cap InRange
MonthlyFor(m) == {i \in TaskIdx : files_to_download[i] = Task("monthly", m, AddMonth(m))}
DailyFor(d) == {i \in TaskIdx : files_to_download[i] = Task("daily", d, d + 1)}
TasksOn(d) == {i \in TaskIdx : d \in TaskDates(files_to_download[i])}

\* C1 (as claimed): the planned ranges, restricted to [s,e], are exactly [s,e] minus
\* the coverage, and no planned task's range holds a covered date.
C1_PlanIsExactlyMissing ==
  Planned =>
    /\ (UNION {TaskDates(files_to_download[i]) : i \in TaskIdx}) \cap InRange = Missing
    /\ \A i \in TaskIdx : TaskDates(files_to_download[i]) \cap existing_dates = {}

\* C2: every date of [s,e] that is not covered lies in the range of exactly one
\* planned task, and no two planned tasks overlap.
C2_MissingPlannedOnce ==
  Planned =>
    /\ \A d \in Missing : Cardinality(TasksOn(d)) = 1
    /\ \A i, j \in TaskIdx :
         i # j => TaskDates(files_to_download[i]) \cap TaskDates(files_to_download[j]) = {}

\* C2's case: a plan with a monthly and a daily task, some date covered
C2_Witness ==
  /\ Planned
  /\ existing_dates \cap InRange # {}
  /\ \E i, j \in TaskIdx :
       files_to_download[i].freq = "monthly" /\ files_to_download[j].freq = "daily"

\* C3 (as claimed): a month overlapping [s,e], wholly or partly, with none of its
\* in-range days covered gets exactly one Monthly task and no Daily task.
C3_UncoveredMonthIsMonthly ==
  Planned =>
    \A m \in MonthStarts :
      (InRangeOf(m) # {} /\ InRangeOf(m) \cap existing_dates = {}) =>
        /\ Cardinality(MonthlyFor(m)) = 1
        /\ \A d \in MonthDays(m) : DailyFor(d) = {}

\* C3 (amended): a month wholly within [s,e] with none of its days covered gets
\* exactly one Monthly task and no Daily task; a month only partly within [s,e]
\* with none of its in-range days covered gets no Monthly task and exactly one
\* Daily task for each of its in-range days.
C3_UncoveredWholeMonthIsMonthly ==
  Planned =>
    \A m \in MonthStarts :
      (InRangeOf(m) # {} /\ InRangeOf(m) \cap existing_dates = {}) =>
        IF InRangeOf(m) = MonthDays(m)
        THEN /\ Cardinality(MonthlyFor(m)) = 1
             /\ \A d \in MonthDays(m) : DailyFor(d) = {}
        ELSE /\ MonthlyFor(m) = {}
             /\ \A d \in InRangeOf(m) : Cardinality(DailyFor(d)) = 1
             /\ \A d \in MonthDays(m) \ InRangeOf(m) : DailyFor(d) = {}

\* C3's case: an uncovered month wholly in range and an uncovered month partly in
\* range, both planned
C3_Witness ==
  /\ Planned
  /\ \E m1, m2 \in MonthStarts :
       /\ InRangeOf(m1) = MonthDays(m1) /\ InRangeOf(m1) \cap existing_dates = {}
       /\ MonthlyFor(m1) # {}
       /\ InRangeOf(m2) # {} /\ InRangeOf(m2) # MonthDays(m2)
       /\ Cardinality(InRangeOf(m2)) >= 2
       /\ InRangeOf(m2) \cap existing_dates = {}
       /\ \A d \in InRangeOf(m2) : DailyFor(d) # {}

\* C4 (as claimed): a month overlapping [s,e] with an in-range day covered and an
\* in-range day missing gets no Monthly task, exactly one Daily task for each
\* missing in-range day, and no task for a covered day.
C4_MixedMonthIsDaily ==
  Planned =>
    \A m \in MonthStarts :
      (InRangeOf(m) \cap existing_dates # {} /\ InRangeOf(m) \ existing_dates # {}) =>
        /\ MonthlyFor(m) = {}
        /\ \A d \in InRangeOf(m) \ existing_dates : Cardinality(DailyFor(d)) = 1
        /\ \A d \in InRangeOf(m) \cap existing_dates : TasksOn(d) = {}

\* ------------------------------------------------- backoff properties
RECURSIVE Sum(_)
Sum(q) == IF q = <<>> THEN 0 ELSE Head(q) + Sum(Tail(q))

\* download_with_backoff has returned
Returned == pc = "read"

\* C8 (as claimed): after k rate-limit failures and a success the operation was
\* called k+1 times, download_with_backoff returned, the i-th sleep (from 0) was
\* min(initial * 2^i, max) and the total slept is the sum of these, for every
\* initial and max.
C8_SleepsAreCappedDoublings ==
  Returned =>
    /\ calls = Len(sleeps) + 1
    /\ \A i \in DOMAIN sleeps :
         sleeps[i] = Min(rate_limit_sleep * 2 ^ (i - 1), max_backoff)
    /\ Sum(sleeps) =
         Sum([i \in DOMAIN sleeps |-> Min(rate_limit_sleep * 2 ^ (i - 1), max_backoff)])

\* C9: when the operation raises an error whose message is no rate-limit signal,
\* download_with_backoff is left by that error at once: the failed call is its
\* last, no sleep follows it (no sleep at all when it is the first call), and
\* nothing of download_with_backoff runs any more.
C9_OtherErrorPropagatesAtOnce ==
  (exc # <<>> /\ ~(exc[1].has429 \/ exc[1].hasRateLimit)) =>
    /\ pc = "except"
    /\ calls = Len(sleeps) + 1
    /\ (calls = 1 => Sum(sleeps) = 0)
    /\ ~ENABLED (CallReturns \/ CallRaises \/ BackoffSleep)

\* C9's case: a non-rate-limit error on a call that followed rate-limit retries
C9_Witness ==
  /\ exc # <<>>
  /\ ~(exc[1].has429 \/ exc[1].hasRateLimit)
  /\ pc = "except"
  /\ calls >= 2
  /\ Sum(sleeps) > 0

\* --------------------------------------------------- merge properties
Rewritten == pc = "done" /\ report = "updated"
InitialRows == Range(initial_csv.rows)
PersistedRows == Range(merged_csv.rows)
NewRows == Range(Concat(all_new_rows))

StrictlyAscending(rows) == \A i \in 1 .. (Len(rows) - 1) : rows[i].ts < rows[i + 1].ts

\* C6 (as claimed): whenever main has rewritten the dataset file, its rows are
\* strictly ascending by timestamp, no two sharing a timestamp.
C6_WrittenStrictlyAscending == Rewritten => StrictlyAscending(merged_csv.rows)

\* C7 (as claimed): if the process is terminated while it persists the merged
\* dataset, the dataset file is the complete prior version or the complete new
\* version.
C7_KilledLeavesOldOrNew ==
  pc = "killed" => (merged_csv = initial_csv \/ merged_csv = File(merged))

\* ------------------------------------------------ task loop properties
Results(kind) == {i \in DOMAIN status : status[i].result = kind}

\* C10: once a task has ended in an error, that task has added no frame to the
\* accumulated rows (one frame per task that read its file, none for the others),
\* the loop has gone on task by task in plan order, and when main ends every
\* planned task has been attempted and, for every row gathered from the tasks
\* that succeeded, the rewritten dataset holds a gathered row of that timestamp.
C10_ErrorSkipsOnlyThatTask ==
  Results("error") # {} =>
    /\ Len(status) = ti - 1
    /\ ti <= Len(files_to_download) + 1
    /\ Len(all_new_rows) = Cardinality(Results("ok"))
    /\ NewRows \subseteq fetched
    /\ (pc = "loop" /\ ti <= Len(files_to_download)) => ENABLED TaskBegin
    /\ pc = "done" =>
         /\ Len(status) = Len(files_to_download)
         /\ all_new_rows # <<>> =>
              /\ report = "updated"
              /\ \A r \in NewRows : \E q \in PersistedRows \cap NewRows : q.ts = r.ts

\* C10's case: the first task ended in an error, the second read its file, and its
\* rows were persisted
C10_Witness ==
  /\ pc = "done"
  /\ Len(status) = 2
  /\ status[1].result = "error"
  /\ status[2].result = "ok"
  /\ NewRows # {}
  /\ \A r \in NewRows : \E q \in PersistedRows \cap NewRows : q.ts = r.ts

\* ------------------------------------------------- whole-sync properties
\* main has ended without an exception reaching its caller
CompletedNormally == pc = "done"

\* C11 (as claimed): a sync with start > end does not complete normally, and it
\* attempts no fetch and does not write the dataset file.
C11_StartAfterEndIsFatal ==
  start_date > end_date =>
    /\ ~CompletedNormally
    /\ pc \notin {"call", "read", "backoff", "except", "to_csv", "writing"}
    /\ merged_csv = initial_csv

\* every planned task has been attempted
LoopOver == pc \notin {"start", "call", "backoff", "read", "except"} /\ ti > Len(files_to_download)

\* C12 (as claimed): when the records gathered over all tasks are none (no task
\* read a file, or every row read was discarded), main does not rewrite the
\* dataset file, the dataset stays as it was, and the report is "no new data".
C12_NothingNewNoRewrite ==
  (LoopOver /\ NewRows = {}) =>
    /\ pc \in {"loop", "done"}
    /\ merged_csv = initial_csv
    /\ pc = "done" => report = "no_new_data"

\* ------------------------------------------------------ the merge step
\* lines 126-137 on their own: every dataset file and every list of frames
MaxRows == 2
MaxFrames == 2

SeqsUpTo(S, n) == UNION {[1 .. k -> S] : k \in 0 .. n}

MergeRecs == {Rec(t, f) : t \in 0 .. (MsPerDay - 1), f \in {"old", "new"}}

Ascending(rows) == \A i \in 1 .. (Len(rows) - 1) : rows[i].ts <= rows[i + 1].ts

\* lines 126-134 as a function: the files merged_csv may be after the merge step
Merged(csv, frames) ==
  IF frames # <<>>
  THEN {File(m) : m \in SortValues(MergeFrames(csv, frames))}
  ELSE {csv}

\* main at line 126 with no planned task left: the dataset file absent or holding
\* ascending rows, the accumulated frames any list
InitMerge ==
  /\ start_date = 0
  /\ end_date = 0
  /\ rate_limit_sleep = DefaultRateLimitSleep
  /\ max_backoff = DefaultMaxBackoff
  /\ merged_csv \in {NoFile} \cup
                    {File(d) : d \in {q \in SeqsUpTo(MergeRecs, MaxRows) : q # <<>> /\ Ascending(q)}}
  /\ out_dir = EmptyDir
  /\ initial_csv = merged_csv
  /\ existing_dates = get_existing_dates(merged_csv)
  /\ files_to_download = <<>>
  /\ ti = 1
  /\ all_new_rows \in SeqsUpTo(SeqsUpTo(MergeRecs, MaxRows), MaxFrames)
  /\ merged = <<>>
  /\ sleep_time = 0
  /\ calls = 0
  /\ sleeps = <<>>
  /\ exc = <<>>
  /\ status = <<>>
  /\ fetched = {}
  /\ retried = FALSE
  /\ report = "none"
  /\ pc = "loop"

NextMerge == Merge \/ ToCsvOpen \/ ToCsvRow \/ ToCsvClose

MergeSpec == InitMerge /\ [][NextMerge]_vars

\* C13 (as claimed): the merge step with no incoming record leaves the dataset D
\* as it is, and merging the same frames R into the result merge(D, R) once more
\* gives merge(D, R) again, for every D (absent too) and every R.
C13_MergeIdempotent ==
  pc = "done" =>
    /\ Concat(all_new_rows) = <<>> => merged_csv = initial_csv
    /\ \A again \in Merged(merged_csv, all_new_rows) : again = merged_csv

\* ------------------------------------------------ read-back properties
\* the files the download requested for a task extracts
DownloadedNames(task) ==
  IF task.freq = "monthly" THEN Range(MonthLabels(task.from, task.to)) ELSE {Ymd(task.from)}

\* C14 (as claimed): the file main reads for a task is one the task's download
\* extracts, for monthly as for daily tasks, and when main has ended, every row
\* of an uncovered date in the archive extracted for a monthly task that did not
\* end in an error is in the persisted dataset.
C14_MonthlyRowsReadBack ==
  /\ \A i \in TaskIdx : OutputName(files_to_download[i]) \in DownloadedNames(files_to_download[i])
  /\ CompletedNormally =>
       \A i \in TaskIdx :
         LET t == files_to_download[i]
             f == out_dir[Ym(t.from)]
         IN (t.freq = "monthly" /\ status[i].result # "error" /\ f.exists) =>
              \A r \in Range(f.rows) :
                DateOf(r.ts) \notin existing_dates => \E q \in PersistedRows : q.ts = r.ts

\* ------------------------------------------ sustained rate limiting
\* C15 (as claimed): while every call fails with a rate-limit error,
\* download_with_backoff neither returns nor raises but sleeps and calls again,
\* no sleep is longer than max_backoff, a sleep below max_backoff is followed by
\* a longer one (so the sleep reaches max_backoff), and once a sleep is
\* max_backoff every later one is, for every initial sleep and cap from 0 up.
C15_SustainedRateLimitPollsAtMax ==
  /\ pc = "backoff" =>
       /\ ENABLED BackoffSleep
       /\ ~ENABLED (CallReturns \/ CallRaises \/ ReadOutput \/ Except)
  /\ \A i \in DOMAIN sleeps : sleeps[i] <= max_backoff
  /\ \A i \in DOMAIN sleeps :
       (i + 1 \in DOMAIN sleeps /\ sleeps[i] < max_backoff) => sleeps[i + 1] > sleeps[i]
  /\ \A i, j \in DOMAIN sleeps :
       (i < j /\ sleeps[i] = max_backoff) => sleeps[j] = max_backoff

\* ------------------------------------------------- ordering properties
InTask == pc \in {"call", "backoff", "read", "except"}
AfterLoop == pc \in {"to_csv", "writing", "done", "killed"}

\* C16: the plan is in chronological order and its tasks run one at a time in
\* that order: while task ti runs, exactly the ti - 1 tasks before it have ended
\* (read, without file, or in an error); the dataset file is touched only after
\* every planned task has been attempted, and it is opened for writing at most
\* once: when it is opened it is still as the sync found it, and once the write
\* has ended nothing more happens.
C16_TasksInOrderThenOneWrite ==
  /\ \A i, j \in TaskIdx : i < j => files_to_download[i].from < files_to_download[j].from
  /\ pc # "start" => Len(status) = ti - 1
  /\ InTask => ti \in TaskIdx
  /\ AfterLoop => Len(status) = Len(files_to_download)
  /\ merged_csv # initial_csv => pc \in {"writing", "done", "killed"}
  /\ ENABLED ToCsvOpen => merged_csv = initial_csv
  /\ pc \in {"done", "killed"} => ~ENABLED Next

\* C16's case: two tasks have run, the second after the first has ended, and the
\* dataset file has then been rewritten with rows gathered from both
C16_Witness ==
  /\ pc = "done"
  /\ report = "updated"
  /\ Len(status) = 2
  /\ Len(all_new_rows) = 2
  /\ merged_csv # initial_csv

\* C17 (as claimed): every task that has ended, whether it read its file, found no
\* file or ended in an error, was followed by the pacing sleep of rate_limit_sleep
\* before the next task began.
C17_PacingSleepAfterEveryTask ==
  \A i \in DOMAIN status : status[i].slept = rate_limit_sleep

\* ------------------------------------------------ backoff state per task
\* main's task loop on two daily tasks, for every initial sleep and cap: the
\* first two days of the first month asked for, no dataset yet
InitLoop ==
  /\ start_date = 0
  /\ end_date = 1
  /\ rate_limit_sleep \in 0 .. MaxSleepArg
  /\ max_backoff \in 0 .. MaxSleepArg
  /\ merged_csv = NoFile
  /\ out_dir = EmptyDir
  /\ initial_csv = merged_csv
  /\ pc = "start"
  /\ LocalsUnset

NextLoop ==
  \/ Plan
  \/ TaskBegin
  \/ CallReturns
  \/ CallRaises
  \/ BackoffSleep
  \/ ReadOutput
  \/ Except

LoopSpec == InitLoop /\ [][NextLoop]_vars

\* C18: the first sleep a task makes on a rate-limit error lasts the initial
\* sleep value, whatever the tasks before it slept, and every task enters its
\* first call with the sleep time at the initial value.
C18_FirstSleepIsInitial ==
  /\ sleeps # <<>> => sleeps[1] = rate_limit_sleep
  /\ (pc = "call" /\ calls = 0) => sleep_time = rate_limit_sleep

\* C18's case: the second task has slept twice on rate-limit errors after an
\* earlier task had slept on rate-limit errors, with the initial sleep positive
\* and below the cap (so the earlier task had left a longer sleep time behind)
C18_Witness ==
  /\ ti = 2
  /\ retried
  /\ 0 < rate_limit_sleep
  /\ rate_limit_sleep < max_backoff
  /\ Len(sleeps) = 2
  /\ sleeps[1] = rate_limit_sleep
  /\ sleeps[2] > sleeps[1]

\* ------------------------------------------------ existing-data properties
UniqueTimestamps(rows) == \A i, j \in DOMAIN rows : i # j => rows[i].ts # rows[j].ts

\* C19: when main has ended normally after starting with a dataset file of
\* unique timestamps, every row the file held at the start is in the file at the
\* end, with the same columns and once only, whatever the tasks fetched.
C19_ExistingRowsKept ==
  (CompletedNormally /\ initial_csv.exists /\ UniqueTimestamps(initial_csv.rows)) =>
    /\ merged_csv.exists
    /\ \A r \in InitialRows :
         Cardinality({k \in DOMAIN merged_csv.rows : merged_csv.rows[k].ts = r.ts}) = 1
         /\ r \in PersistedRows

\* C19's case: the file was rewritten with rows gathered from the tasks, one task
\* having read a row with the timestamp of an existing row and other columns
C19_Witness ==
  /\ Rewritten
  /\ initial_csv.exists
  /\ NewRows # {}
  /\ PersistedRows # InitialRows
  /\ \E o \in InitialRows : \E n \in fetched : n.ts = o.ts /\ n # o

RowsOn(rows, d) == {r \in rows : DateOf(r.ts) = d}

\* C20: when main has ended normally, for every date the coverage computed from
\* the starting dataset holds, the persisted rows of that date are those the
\* dataset held at the start, also when a file read for a task held rows of that
\* date which the dataset lacked.
C20_CoveredDateGainsNothing ==
  CompletedNormally =>
    \A d \in get_existing_dates(initial_csv) :
      RowsOn(PersistedRows, d) = RowsOn(InitialRows, d)

\* C20's case: the file was rewritten after a task read, for a covered date, a
\* row of a timestamp the dataset did not hold
C20_Witness ==
  /\ Rewritten
  /\ \E n \in fetched :
       /\ DateOf(n.ts) \in get_existing_dates(initial_csv)
       /\ \A o \in InitialRows : o.ts # n.ts
       /\ n \notin PersistedRows

====
